---- MODULE Spec2Model ----
(***************************************************************************)
(* Model of the two daily code generators of this repository:              *)
(*   .github/workflows/scripts/generate_daily_code.py  (templated)         *)
(*   scripts/generate_daily_code.py                    (simple snippets)   *)
(* The file system, the UTC clock and each invocation's position in main() *)
(* are the state; one action per statement of main() that reads the clock  *)
(* or touches the file system.                                             *)
(***************************************************************************)
EXTENDS Integers, Sequences, FiniteSets, TLC

VARIABLES
  clock,     \* the UTC clock: [y, m, d, t], t the tick within the day
  nticks,    \* how many times the clock advanced (bounded)
  dirs,      \* directories that exist
  gitkeep,   \* daily_code/.gitkeep exists
  files,     \* generated files: path -> content
  index,     \* daily_code/README.md: [exists, lines]
  pc,        \* per invocation slot: position in main()
  loc,       \* per invocation slot: the locals of main()
  snap,      \* per invocation slot: files/index/clock when main() was entered
  runs,      \* invocations started so far (bounded)
  hist,      \* completed selections: what each invocation computed
  aborts,    \* the positions invocations were killed at, with their out_path
  spc,       \* simple script: position
  sdir,      \* simple script: the directory daily_code exists
  sloc,      \* simple script: locals (today, file_path, code)
  sfiles,    \* simple script: daily_code/<today>.py -> content
  sreadme,   \* simple script: README.md: [exists, lines]
  sruns      \* simple script: invocations started so far (bounded)

vars == <<clock, nticks, dirs, gitkeep, files, index, pc, loc, snap, runs, hist,
          aborts, spc, sdir, sloc, sfiles, sreadme, sruns>>

(***************************************************************************)
(* Bounds of the model.                                                    *)
(***************************************************************************)
MaxRuns == 3
MaxTicks == 2
TicksPerDay == 2
MaxSimpleRuns == 3
MaxRounds == 2
StartYear == 2024

(***************************************************************************)
(* The UTC calendar and datetime.strftime.                                 *)
(***************************************************************************)
IsLeap(y) == (y % 4 = 0 /\ y % 100 # 0) \/ y % 400 = 0

DaysIn(y, m) ==
  IF m = 2 THEN (IF IsLeap(y) THEN 29 ELSE 28)
  ELSE IF m \in {4, 6, 9, 11} THEN 30 ELSE 31

AllDates ==
  { [y |-> y, m |-> m, d |-> d, t |-> 0] :
      y \in {StartYear}, m \in 1..12, d \in 1..31 }

ValidDates == { c \in AllDates : c.d <= DaysIn(c.y, c.m) }

\* The dates on which the year or the month turns, and one ordinary day.
EdgeDates ==
  { c \in ValidDates : (c.m = 12 /\ c.d >= 30) \/ (c.m = 2 /\ c.d >= 28)
                       \/ (c.m = 6 /\ c.d = 15) }

Advance(c) ==
  IF c.t + 1 < TicksPerDay THEN [c EXCEPT !.t = c.t + 1]
  ELSE IF c.d < DaysIn(c.y, c.m) THEN [c EXCEPT !.d = c.d + 1, !.t = 0]
  ELSE IF c.m < 12 THEN [c EXCEPT !.m = c.m + 1, !.d = 1, !.t = 0]
  ELSE [y |-> c.y + 1, m |-> 1, d |-> 1, t |-> 0]

\* Zero-padded decimal digits, as %Y / %m / %d / %H / %M print them.
Digits2(n) == << (n \div 10) % 10, n % 10 >>
Digits4(n) == << (n \div 1000) % 10, (n \div 100) % 10, (n \div 10) % 10, n % 10 >>

\* strftime("%Y%m%d"): eight digits.
FmtYmd(c) == Digits4(c.y) \o Digits2(c.m) \o Digits2(c.d)

\* strftime("%Y-%m-%d"): the three fields, dash-separated.
FmtDate(c) == << Digits4(c.y), Digits2(c.m), Digits2(c.d) >>

\* strftime("%Y")
FmtYear(c) == Digits4(c.y)

\* strftime("%Y-%m-%d %H:%M UTC")
FmtStamp(c) ==
  << Digits4(c.y), Digits2(c.m), Digits2(c.d),
     Digits2((c.t * 24) \div TicksPerDay), Digits2(0) >>

\* int(<decimal digits>)
RECURSIVE ParseInt(_)
ParseInt(ds) ==
  IF ds = <<>> THEN 0
  ELSE 10 * ParseInt(SubSeq(ds, 1, Len(ds) - 1)) + ds[Len(ds)]

\* A today_seed that also reads the time of day (%Y%m%d%H).
today_seed_hour(c) == ParseInt(FmtYmd(c) \o Digits2((c.t * 24) \div TicksPerDay))

today_seed(c) == ParseInt(FmtYmd(c))

(***************************************************************************)
(* random.Random: a deterministic generator, a function of its seed alone. *)
(* The library's Mersenne Twister is stood in for by a 16-bit linear       *)
(* congruential generator; randint and choice reduce a draw to the range.  *)
(***************************************************************************)
RngModulus == 65536
RngMul == 25173
RngInc == 13849

RandomInit(seed) == seed % RngModulus
RngNext(r) == (RngMul * r + RngInc) % RngModulus
RngVal(r) == r \div 16

\* r is the generator state after the draw was taken.
RandInt(r, lo, hi) == lo + (RngVal(r) % (hi - lo + 1))
Choice(r, seq) == seq[1 + (RngVal(r) % Len(seq))]

\* k successive generator states after r.
RECURSIVE Draws(_, _)
Draws(r, k) ==
  IF k = 0 THEN <<>> ELSE LET r1 == RngNext(r) IN <<r1>> \o Draws(r1, k - 1)

RECURSIVE SortSet(_)
SortSet(S) ==
  IF S = {} THEN <<>>
  ELSE LET lo == CHOOSE x \in S : \A z \in S : x <= z
       IN <<lo>> \o SortSet(S \ {lo})

(***************************************************************************)
(* The template registry of pick_template.  A template's code is a list of *)
(* lines: the indentation, the text, and the placeholders of the line in   *)
(* order.  The first line (after the opening quotes) is empty and the last *)
(* holds only the closing indentation.  Lines of a function body that hold *)
(* no brace are stood for by the function's first line.                    *)
(***************************************************************************)
\* Strings whose characters the code inspects are lists of characters.
LowerLetters ==
  << "a", "b", "c", "d", "e", "f", "g", "h", "i", "j", "k", "l",
     "m", "n", "o", "p", "q", "r", "s", "t", "u", "v", "w", "x",
     "y", "z" >>

UpperLetters ==
  << "A", "B", "C", "D", "E", "F", "G", "H", "I", "J", "K", "L",
     "M", "N", "O", "P", "Q", "R", "S", "T", "U", "V", "W", "X",
     "Y", "Z" >>

\* "fibonacci_iterative"
NameFibonacci ==
  << "f", "i", "b", "o", "n", "a", "c", "c", "i", "_", "i", "t",
     "e", "r", "a", "t", "i", "v", "e" >>

\* "sieve_of_eratosthenes"
NameSieve ==
  << "s", "i", "e", "v", "e", "_", "o", "f", "_", "e", "r", "a",
     "t", "o", "s", "t", "h", "e", "n", "e", "s" >>

\* "merge_sort"
NameMergeSort ==
  << "m", "e", "r", "g", "e", "_", "s", "o", "r", "t" >>

\* "levenshtein_distance"
NameLevenshtein ==
  << "l", "e", "v", "e", "n", "s", "h", "t", "e", "i", "n", "_",
     "d", "i", "s", "t", "a", "n", "c", "e" >>

\* "dijkstra_on_grid"
NameDijkstra ==
  << "d", "i", "j", "k", "s", "t", "r", "a", "_", "o", "n", "_",
     "g", "r", "i", "d" >>

Line(n, s, ps) == [indent |-> n, text |-> s, phs |-> ps]

CodeFibonacci ==
  << Line(0, "", <<>>),
     Line(16, "def fibonacci(n: int) -> list[int]:", <<>>),
     Line(20, "return seq", <<>>),
     Line(16, "if __name__ == '__main__':", <<>>),
     Line(20, "N = {N}", <<"N">>),
     Line(20, "print(f'Fibonacci first {N}: ', fibonacci(N))", <<"N">>),
     Line(12, "", <<>>) >>

CodeSieve ==
  << Line(0, "", <<>>),
     Line(16, "def primes_up_to(limit: int) -> list[int]:", <<>>),
     Line(20, "return [i for i, is_prime in enumerate(sieve) if is_prime]", <<>>),
     Line(16, "if __name__ == '__main__':", <<>>),
     Line(20, "LIMIT = {LIMIT}", <<"LIMIT">>),
     Line(20, "print(f'Primes up to {LIMIT}: ', primes_up_to(LIMIT))", <<"LIMIT">>),
     Line(12, "", <<>>) >>

CodeMergeSort ==
  << Line(0, "", <<>>),
     Line(16, "def merge_sort(arr: List[T]) -> List[T]:", <<>>),
     Line(20, "return merge(left, right)", <<>>),
     Line(0, "", <<>>),
     Line(16, "def merge(left: List[T], right: List[T]) -> List[T]:", <<>>),
     Line(20, "return out", <<>>),
     Line(0, "", <<>>),
     Line(16, "if __name__ == '__main__':", <<>>),
     Line(20, "data = {DATA}", <<"DATA">>),
     Line(20, "print('Sorted:', merge_sort(data))", <<>>),
     Line(12, "", <<>>) >>

CodeLevenshtein ==
  << Line(0, "", <<>>),
     Line(16, "def levenshtein(a: str, b: str) -> int:", <<>>),
     Line(20, "return prev[-1]", <<>>),
     Line(0, "", <<>>),
     Line(16, "if __name__ == '__main__':", <<>>),
     Line(20, "A = '{A}'", <<"A">>),
     Line(20, "B = '{B}'", <<"B">>),
     Line(20, "print(f'levenshtein({A},{B}) =', levenshtein(A, B))", <<"A", "B">>),
     Line(12, "", <<>>) >>

CodeDijkstra ==
  << Line(0, "", <<>>),
     Line(16, "def neighbors(r: int, c: int, R: int, C: int):", <<>>),
     Line(0, "", <<>>),
     Line(16, "def dijkstra(grid: List[List[int]], start=(0,0), goal=None) -> int:", <<>>),
     Line(20, "R, C = len(grid), len(grid[0])", <<>>),
     Line(20, "return -1", <<>>),
     Line(0, "", <<>>),
     Line(16, "if __name__ == '__main__':", <<>>),
     Line(20, "grid = {GRID}", <<"GRID">>),
     Line(20, "print('Min path cost:', dijkstra(grid))", <<>>),
     Line(12, "", <<>>) >>

Templates ==
  << [name |-> NameFibonacci,
      desc |-> "Compute the first N Fibonacci numbers iteratively.",
      code |-> CodeFibonacci],
     [name |-> NameSieve,
      desc |-> "Generate primes up to a limit using the Sieve of Eratosthenes.",
      code |-> CodeSieve],
     [name |-> NameMergeSort,
      desc |-> "Stable merge sort implementation with type hints.",
      code |-> CodeMergeSort],
     [name |-> NameLevenshtein,
      desc |-> "Compute Levenshtein (edit) distance between two strings.",
      code |-> CodeLevenshtein],
     [name |-> NameDijkstra,
      desc |-> "Dijkstra shortest path on a small weighted grid (no deps).",
      code |-> CodeDijkstra] >>

Codecraft == << "c", "o", "d", "e", "c", "r", "a", "f", "t" >>
Workflows == << "w", "o", "r", "k", "f", "l", "o", "w", "s" >>

(***************************************************************************)
(* The parameter generators ("params" lambdas), each drawing from the      *)
(* generator state r left by rng.choice, in Python's evaluation order: the *)
(* outermost range(...) of a comprehension first, then its elements.       *)
(***************************************************************************)
ParamsFibonacci(r) == [N |-> RandInt(RngNext(r), 8, 20)]

ParamsSieve(r) == [LIMIT |-> RandInt(RngNext(r), 50, 200)]

ParamsMergeSort(r) ==
  LET r1 == RngNext(r)
      k == RandInt(r1, 8, 14)
      ds == Draws(r1, k)
      S == { RandInt(ds[i], -50, 50) : i \in 1..k }
      sorted == SortSet(S)
  IN [DATA |-> IF sorted = <<>> THEN <<0>> ELSE sorted]

\* A generator that returns no entry for B.
ParamsLevenshteinNoB(r) ==
  LET r1 == RngNext(r)
      la == RandInt(r1, 4, 7)
      da == Draws(r1, la)
  IN [A |-> [i \in 1..la |-> Choice(da[i], Codecraft)]]

ParamsLevenshtein(r) ==
  LET r1 == RngNext(r)
      la == RandInt(r1, 4, 7)
      da == Draws(r1, la)
      r2 == RngNext(da[la])
      lb == RandInt(r2, 4, 7)
      db == Draws(r2, lb)
  IN [A |-> [i \in 1..la |-> Choice(da[i], Codecraft)],
      B |-> [i \in 1..lb |-> Choice(db[i], Workflows)]]

\* n rows, each drawing its own length and then its weights.
RECURSIVE GridRows(_, _)
GridRows(r, n) ==
  IF n = 0 THEN <<>>
  ELSE LET r1 == RngNext(r)
           len == RandInt(r1, 4, 6)
           ds == Draws(r1, len)
           row == [i \in 1..len |-> RandInt(ds[i], 1, 9)]
       IN <<row>> \o GridRows(ds[len], n - 1)

ParamsDijkstra(r) ==
  LET r1 == RngNext(r)
  IN [GRID |-> GridRows(r1, RandInt(r1, 4, 6))]

Params(name, r) ==
  CASE name = NameFibonacci -> ParamsFibonacci(r)
    [] name = NameSieve -> ParamsSieve(r)
    [] name = NameMergeSort -> ParamsMergeSort(r)
    [] name = NameLevenshtein -> ParamsLevenshtein(r)
    [] name = NameDijkstra -> ParamsDijkstra(r)

\* rng.choice(templates): the template and the generator state it leaves.
pick_template(r) ==
  LET r1 == RngNext(r) IN [t |-> Choice(r1, Templates), r |-> r1]

\* What one invocation selects from a seed: main() lines 192-196.
Selection(seed) ==
  LET p == pick_template(RandomInit(seed))
  IN [name |-> p.t.name, params |-> Params(p.t.name, p.r)]

(***************************************************************************)
(* Rendering: textwrap.dedent, str.format, lstrip.                           *)
(***************************************************************************)
Min(S) == CHOOSE x \in S : \A z \in S : x <= z

\* dedent: whitespace-only lines become empty; the common margin is removed.
Dedent(code) ==
  LET full == { i \in 1..Len(code) : code[i].text # "" }
      margin == IF full = {} THEN 0 ELSE Min({ code[i].indent : i \in full })
  IN [i \in 1..Len(code) |->
        IF code[i].text = "" THEN [code[i] EXCEPT !.indent = 0]
        ELSE [code[i] EXCEPT !.indent = code[i].indent - margin]]

PlaceholdersOf(code) ==
  UNION { { code[i].phs[j] : j \in 1..Len(code[i].phs) } : i \in 1..Len(code) }

\* format: KeyError when a placeholder has no entry, else every placeholder
\* of every line replaced by its value.
Format(code, params) ==
  IF ~ (PlaceholdersOf(code) \subseteq DOMAIN params)
  THEN [ok |-> FALSE, lines |-> <<>>]
  ELSE [ok |-> TRUE,
        lines |-> [i \in 1..Len(code) |->
                     [indent |-> code[i].indent, text |-> code[i].text, phs |-> <<>>,
                      vals |-> [j \in 1..Len(code[i].phs) |-> params[code[i].phs[j]]]]]]

\* lstrip: the leading empty lines go.
RECURSIVE LStripNewlines(_)
LStripNewlines(lines) ==
  IF lines # <<>> /\ lines[1].text = "" /\ lines[1].indent = 0
  THEN LStripNewlines(Tail(lines))
  ELSE lines

\* body = textwrap.dedent(t["code"]).format(params).lstrip()
Render(t, params) ==
  LET f == Format(Dedent(t.code), params)
  IN [ok |-> f.ok, lines |-> LStripNewlines(f.lines)]

\* The placeholder markers a rendered text still holds.
Unresolved(lines) ==
  UNION { { lines[i].phs[j] : j \in 1..Len(lines[i].phs) } : i \in 1..Len(lines) }

\* str.lower() / str.upper() of one character.
LowerChar(c) ==
  IF \E i \in 1..Len(UpperLetters) : UpperLetters[i] = c
  THEN LowerLetters[CHOOSE i \in 1..Len(UpperLetters) : UpperLetters[i] = c]
  ELSE c

UpperChar(c) ==
  IF \E i \in 1..Len(LowerLetters) : LowerLetters[i] = c
  THEN UpperLetters[CHOOSE i \in 1..Len(LowerLetters) : LowerLetters[i] = c]
  ELSE c

IsLetter(c) ==
  \E i \in 1..Len(LowerLetters) : LowerLetters[i] = c \/ UpperLetters[i] = c

\* t["name"].replace("_", " ").title(): a letter after a non-letter is
\* upper-cased, any other letter lower-cased.
Title(name) ==
  LET spaced == [i \in 1..Len(name) |-> IF name[i] = "_" THEN " " ELSE name[i]]
  IN [i \in 1..Len(spaced) |->
        IF i > 1 /\ IsLetter(spaced[i - 1]) THEN LowerChar(spaced[i])
        ELSE UpperChar(spaced[i])]

\* The characters the pattern [^a-z0-9_] leaves alone.
SlugChars ==
  { LowerLetters[i] : i \in 1..Len(LowerLetters) }
    \cup { "0", "1", "2", "3", "4", "5", "6", "7", "8", "9", "_" }

\* re.sub(r"[^a-z0-9_]+", "_", s): each run of other characters becomes one "_".
RECURSIVE SubRuns(_, _)
SubRuns(s, inrun) ==
  IF s = <<>> THEN <<>>
  ELSE IF Head(s) \in SlugChars THEN << Head(s) >> \o SubRuns(Tail(s), FALSE)
  ELSE IF inrun THEN SubRuns(Tail(s), TRUE)
  ELSE << "_" >> \o SubRuns(Tail(s), TRUE)

\* re.sub(r"[^a-z0-9_]+", "_", name.lower())
slugify(name) == SubRuns([i \in 1..Len(name) |-> LowerChar(name[i])], FALSE)

(***************************************************************************)
(* Paths.  A path is the list of its components below ROOT; a generated    *)
(* file's name keeps its parts: the date, the slug and the version (1: no  *)
(* suffix, N: "_vN").                                                      *)
(***************************************************************************)
ROOT == <<>>
OUT_DIR == ROOT \o << [lit |-> "daily_code"] >>
IndexPath == OUT_DIR \o << [lit |-> "README.md"] >>

FileName(date_str, slug, v) == [date |-> date_str, slug |-> slug, v |-> v]

Parent(path) == SubSeq(path, 1, Len(path) - 1)

\* Path.relative_to(root)
RelativeTo(path, root) == SubSeq(path, Len(root) + 1, Len(path))

\* A relative link of a document, resolved from the document's directory.
ResolveLink(doc, link) == Parent(doc) \o link

\* Path.exists() of an output path that never reports a file.
PathExistsNever(fs, path) == FALSE

\* Path.exists()
PathExists(fs, path) == path \in DOMAIN fs

\* Path.write_text(): creates or replaces.
Put(fs, path, content) ==
  [q \in (DOMAIN fs) \cup {path} |-> IF q = path THEN content ELSE fs[q]]

NoFiles == [q \in {} |-> 0]
NoIndex == [exists |-> FALSE, lines |-> <<>>]

\* "# Daily Python Code\n\nAuto-generated snippets, one per day.\n\n"
IndexHeader == [hdr |-> "# Daily Python Code"]

\* ensure_index without the existence test: the header is always written.
IndexMissingAlways(idx) == TRUE

\* not index.exists()
IndexMissing(idx) == ~ idx.exists

\* index.write_text(header): creates or truncates.
WriteHeader(idx) == [exists |-> TRUE, lines |-> << IndexHeader >>]

\* open("w") in place of open("a"): the line replaces the content.
OverwriteLine(idx, line) == [exists |-> TRUE, lines |-> << line >>]

\* index.open("a").write(line): creates the file when absent, else appends.
AppendLine(idx, line) == [exists |-> TRUE, lines |-> Append(idx.lines, line)]

\* header + body of a generated file.
Content(name, desc, date_str, body) ==
  [header |-> [title |-> Title(name), date |-> date_str, desc |-> desc],
   text |-> body]

\* The line update_index appends: its arguments are rel, t["name"], t["desc"].
IndexLine(now, title, rel_path, desc) ==
  [now |-> now, title |-> title, link |-> rel_path, desc |-> desc]

Template(name) ==
  Templates[CHOOSE i \in 1..Len(Templates) : Templates[i].name = name]

(***************************************************************************)
(* main(): the statements in order.  An invocation slot is idle, or at one *)
(* of these positions, or done / failed (an exception left main).          *)
(***************************************************************************)
Procs == {1, 2}

\* main() with the index line appended before the file is written.
MainOrderAppendFirst ==
  << "seed", "mkdir", "index_check", "index_write", "pick", "date", "year",
     "exists", "append", "write", "done" >>

MainOrder ==
  << "seed", "mkdir", "index_check", "index_write", "pick", "date", "year",
     "exists", "write", "append", "done" >>

After(at) ==
  MainOrder[1 + CHOOSE i \in 1..(Len(MainOrder) - 1) : MainOrder[i] = at]

Running == { MainOrder[i] : i \in 1..(Len(MainOrder) - 1) }

InitLoc ==
  [seed |-> 0, rng |-> 0, existed |-> FALSE, name |-> <<>>, params |-> [none |-> 0],
   date_str |-> <<>>, year_dir |-> <<>>, out_path |-> <<>>, counter |-> 0,
   now |-> <<>>]

InitSnap == [files |-> NoFiles, index |-> NoIndex, clock |-> [y |-> 0, m |-> 0, d |-> 0, t |-> 0]]

SimpleInitLoc == [today |-> <<>>, file_path |-> <<>>, code |-> 0]

fsvars == <<dirs, gitkeep, files, index>>
simplevars == <<spc, sdir, sloc, sfiles, sreadme, sruns>>

InitAt(dates) ==
  /\ clock \in dates
  /\ nticks = 0
  /\ dirs = {}
  /\ gitkeep = FALSE
  /\ files = NoFiles
  /\ index = NoIndex
  /\ pc = [p \in Procs |-> "idle"]
  /\ loc = [p \in Procs |-> InitLoc]
  /\ snap = [p \in Procs |-> InitSnap]
  /\ runs = 0
  /\ hist = {}
  /\ aborts = {}
  /\ spc = "idle"
  /\ sdir = FALSE
  /\ sloc = SimpleInitLoc
  /\ sfiles = NoFiles
  /\ sreadme = NoIndex
  /\ sruns = 0

Init == InitAt(ValidDates)

\* The process starts main(); what the file system held is remembered.
Start(p) ==
  /\ pc[p] = "idle"
  /\ runs < MaxRuns
  /\ runs' = runs + 1
  /\ pc' = [pc EXCEPT ![p] = MainOrder[1]]
  /\ loc' = [loc EXCEPT ![p] = InitLoc]
  /\ snap' = [snap EXCEPT ![p] = [files |-> files, index |-> index, clock |-> clock]]
  /\ UNCHANGED <<clock, nticks, fsvars, hist, aborts, simplevars>>

\* rng = random.Random(today_seed())
Seed(p) ==
  /\ pc[p] = "seed"
  /\ LET seed == today_seed(clock)
     IN loc' = [loc EXCEPT ![p].seed = seed, ![p].rng = RandomInit(seed)]
  /\ pc' = [pc EXCEPT ![p] = After("seed")]
  /\ UNCHANGED <<clock, nticks, fsvars, snap, runs, hist, aborts, simplevars>>

\* ensure_index: OUT_DIR.mkdir(parents, exist_ok); .gitkeep touch(exist_ok)
Mkdir(p) ==
  /\ pc[p] = "mkdir"
  /\ dirs' = dirs \cup {OUT_DIR}
  /\ gitkeep' = TRUE
  /\ pc' = [pc EXCEPT ![p] = After("mkdir")]
  /\ UNCHANGED <<clock, nticks, files, index, loc, snap, runs, hist, aborts, simplevars>>

\* ensure_index: if not index.exists()
IndexCheck(p) ==
  /\ pc[p] = "index_check"
  /\ loc' = [loc EXCEPT ![p].existed = ~ IndexMissing(index)]
  /\ pc' = [pc EXCEPT ![p] = IF IndexMissing(index) THEN After("index_check")
                             ELSE After("index_write")]
  /\ UNCHANGED <<clock, nticks, fsvars, snap, runs, hist, aborts, simplevars>>

\* ensure_index: index.write_text(header)
IndexWrite(p) ==
  /\ pc[p] = "index_write"
  /\ index' = WriteHeader(index)
  /\ pc' = [pc EXCEPT ![p] = After("index_write")]
  /\ UNCHANGED <<clock, nticks, dirs, gitkeep, files, loc, snap, runs, hist, aborts,
                 simplevars>>

\* t = pick_template(rng); params = t["params"](rng)
Pick(p) ==
  /\ pc[p] = "pick"
  /\ LET c == pick_template(loc[p].rng)
         ps == Params(c.t.name, c.r)
     IN /\ loc' = [loc EXCEPT ![p].name = c.t.name, ![p].params = ps, ![p].rng = c.r]
        /\ hist' = hist \cup
             { [day |-> FmtYmd(snap[p].clock), seed |-> loc[p].seed, name |-> c.t.name,
                params |-> ps, nfiles |-> Cardinality(DOMAIN files),
                nlines |-> Len(index.lines)] }
  /\ pc' = [pc EXCEPT ![p] = After("pick")]
  /\ UNCHANGED <<clock, nticks, fsvars, snap, runs, aborts, simplevars>>

\* date_str = datetime.utcnow().strftime("%Y-%m-%d")
DateStr(p) ==
  /\ pc[p] = "date"
  /\ loc' = [loc EXCEPT ![p].date_str = FmtDate(clock)]
  /\ pc' = [pc EXCEPT ![p] = After("date")]
  /\ UNCHANGED <<clock, nticks, fsvars, snap, runs, hist, aborts, simplevars>>

\* year_dir = OUT_DIR / strftime("%Y"); year_dir.mkdir(); out_path = year_dir /
\* base_name; counter = 2
YearDir(p) ==
  /\ pc[p] = "year"
  /\ LET yd == OUT_DIR \o << [year |-> FmtYear(clock)] >>
     IN /\ dirs' = dirs \cup {OUT_DIR, yd}
        /\ loc' = [loc EXCEPT
             ![p].year_dir = yd,
             ![p].out_path = yd \o << FileName(loc[p].date_str, slugify(loc[p].name), 1) >>,
             ![p].counter = 2]
  /\ pc' = [pc EXCEPT ![p] = After("year")]
  /\ UNCHANGED <<clock, nticks, gitkeep, files, index, snap, runs, hist, aborts,
                 simplevars>>

\* while out_path.exists(): out_path = ..._v{counter}.py; counter += 1
Exists(p) ==
  /\ pc[p] = "exists"
  /\ IF PathExists(files, loc[p].out_path)
     THEN /\ loc' = [loc EXCEPT
               ![p].out_path = loc[p].year_dir \o
                  << FileName(loc[p].date_str, slugify(loc[p].name), loc[p].counter) >>,
               ![p].counter = loc[p].counter + 1]
          /\ pc' = pc
     ELSE /\ loc' = loc
          /\ pc' = [pc EXCEPT ![p] = After("exists")]
  /\ UNCHANGED <<clock, nticks, fsvars, snap, runs, hist, aborts, simplevars>>

\* body = dedent(code).format(params): a KeyError leaves main();
\* out_path.write_text(header + body)
Write(p) ==
  /\ pc[p] = "write"
  /\ LET t == Template(loc[p].name)
         body == Render(t, loc[p].params)
     IN IF body.ok
        THEN /\ files' = Put(files, loc[p].out_path,
                             Content(t.name, t.desc, loc[p].date_str, body.lines))
             /\ pc' = [pc EXCEPT ![p] = After("write")]
        ELSE /\ files' = files
             /\ pc' = [pc EXCEPT ![p] = "failed"]
  /\ UNCHANGED <<clock, nticks, dirs, gitkeep, index, loc, snap, runs, hist, aborts,
                 simplevars>>

\* rel = out_path.relative_to(ROOT); update_index(rel, t["name"], t["desc"])
UpdateIndex(p) ==
  /\ pc[p] = "append"
  /\ LET t == Template(loc[p].name)
         now == FmtStamp(clock)
         rel == RelativeTo(loc[p].out_path, ROOT)
     IN /\ index' = AppendLine(index, IndexLine(now, t.name, rel, t.desc))
        /\ loc' = [loc EXCEPT ![p].now = now]
  /\ pc' = [pc EXCEPT ![p] = After("append")]
  /\ UNCHANGED <<clock, nticks, dirs, gitkeep, files, snap, runs, hist, aborts,
                 simplevars>>

\* main() returned, or the exception ended the process.
Finish(p) ==
  /\ pc[p] \in {"done", "failed"}
  /\ pc' = [pc EXCEPT ![p] = "idle"]
  /\ UNCHANGED <<clock, nticks, fsvars, loc, snap, runs, hist, aborts, simplevars>>

Step(p) ==
  \/ Seed(p) \/ Mkdir(p) \/ IndexCheck(p) \/ IndexWrite(p) \/ Pick(p)
  \/ DateStr(p) \/ YearDir(p) \/ Exists(p) \/ Write(p) \/ UpdateIndex(p)

AllIdle == \A p \in Procs : pc[p] = "idle"

\* The clock advances while no invocation runs.
TickIdle ==
  /\ AllIdle
  /\ nticks < MaxTicks
  /\ nticks' = nticks + 1
  /\ clock' = Advance(clock)
  /\ UNCHANGED <<fsvars, pc, loc, snap, runs, hist, aborts, simplevars>>

(***************************************************************************)
(* Spec: invocations one after the other, the clock fixed within each.     *)
(***************************************************************************)
Next ==
  \/ Start(1)
  \/ Seed(1)
  \/ Mkdir(1)
  \/ IndexCheck(1)
  \/ IndexWrite(1)
  \/ Pick(1)
  \/ DateStr(1)
  \/ YearDir(1)
  \/ Exists(1)
  \/ Write(1)
  \/ UpdateIndex(1)
  \/ Finish(1)
  \/ TickIdle

Spec == Init /\ [][Next]_vars

(***************************************************************************)
(* Properties of sequential invocations (Spec).                            *)
(***************************************************************************)
IsPrefix(a, b) == Len(a) <= Len(b) /\ SubSeq(b, 1, Len(a)) = a

\* The index an invocation builds on: what it found, or the fresh header.
BaseLines(idx) == IF idx.exists THEN idx.lines ELSE << IndexHeader >>

\* The path of version v for the invocation in slot p.
VersionPath(p, v) ==
  loc[p].year_dir \o << FileName(loc[p].date_str, slugify(loc[p].name), v) >>

\* The first version whose path was free when the invocation started.
FirstFree(p) ==
  Min({ v \in 1..(Cardinality(DOMAIN snap[p].files) + 1) :
          VersionPath(p, v) \notin DOMAIN snap[p].files })

Written(p) == pc[p] \in {"append", "done"}

\* C1: a sequential invocation writes exactly one new file, at the first free
\* path of <date>_<slug>.py, _v2, _v3, ...; every file that existed when it
\* started keeps its content (so a second invocation on the same date and
\* template writes the _v2 file beside the first).
C1_NoOverwrite ==
  /\ \A q \in DOMAIN snap[1].files :
       pc[1] # "idle" => q \in DOMAIN files /\ files[q] = snap[1].files[q]
  /\ (pc[1] \in Running /\ ~ Written(1)) => files = snap[1].files
  /\ Written(1) =>
       /\ loc[1].out_path = VersionPath(1, FirstFree(1))
       /\ loc[1].out_path \notin DOMAIN snap[1].files
       /\ DOMAIN files = (DOMAIN snap[1].files) \cup {loc[1].out_path}

\* A second invocation on the same date and template has written the _v2 file.
C1_Witness ==
  /\ pc[1] = "done"
  /\ loc[1].out_path = VersionPath(1, 2)
  /\ VersionPath(1, 1) \in DOMAIN snap[1].files
  /\ Cardinality(DOMAIN files) = Cardinality(DOMAIN snap[1].files) + 1

\* C2: the index is append-only: what an invocation found stays a prefix, a
\* completed invocation adds exactly one line, and the header is written only
\* when the index did not exist: ensure_index on an existing index changes
\* nothing and the header stays the single first line.
C2_IndexAppendOnly ==
  /\ (pc[1] # "idle" /\ snap[1].index.exists) =>
       index.exists /\ IsPrefix(snap[1].index.lines, index.lines)
  /\ (pc[1] \in {"pick", "date", "year", "exists", "write", "append"}) =>
       index = [exists |-> TRUE, lines |-> BaseLines(snap[1].index)]
  /\ pc[1] = "done" =>
       /\ Len(index.lines) = Len(BaseLines(snap[1].index)) + 1
       /\ IsPrefix(BaseLines(snap[1].index), index.lines)
  /\ index.exists =>
       /\ index.lines[1] = IndexHeader
       /\ \A i \in 2..Len(index.lines) : index.lines[i] # IndexHeader

\* An invocation that found an index with entries has appended its line.
C2_Witness ==
  /\ pc[1] = "done"
  /\ snap[1].index.exists
  /\ Len(snap[1].index.lines) >= 2
  /\ Len(index.lines) = Len(snap[1].index.lines) + 1

\* C3: two invocations with the clock on the same UTC date compute the same
\* seed int(YYYYMMDD), pick the same template and generate the same
\* parameters, whatever files and index lines exist.
C3_Deterministic ==
  /\ \A a \in hist : a.seed = ParseInt(a.day)
  /\ \A a, b \in hist :
       a.day = b.day => a.seed = b.seed /\ a.name = b.name /\ a.params = b.params

\* Two invocations of one date that found different files and index lines.
C3_Witness ==
  \E a, b \in hist :
    a.day = b.day /\ a.nfiles # b.nfiles /\ a.nlines # b.nlines /\ a.name = b.name

\* C4: the line an invocation appends records the selected template's title
\* (the name, as update_index receives it, or its title-cased form) and its
\* description, and its link, resolved from the index file's directory, is
\* the file this invocation wrote.
C4_IndexLineLinksFile ==
  pc[1] = "done" =>
    LET line == index.lines[Len(index.lines)]
        t == Template(loc[1].name)
    IN /\ line.title \in {t.name, Title(t.name)}
       /\ line.desc = t.desc
       /\ ResolveLink(IndexPath, line.link) = loc[1].out_path
       /\ ResolveLink(IndexPath, line.link) \in DOMAIN files

\* What each template's code needs of its parameters.
Precondition(name, ps) ==
  CASE name = NameFibonacci -> ps.N >= 1
    [] name = NameSieve -> ps.LIMIT >= 2
    [] name = NameMergeSort -> Len(ps.DATA) >= 1
    [] name = NameLevenshtein -> Len(ps.A) >= 1 /\ Len(ps.B) >= 1
    [] name = NameDijkstra ->
         /\ Len(ps.GRID) >= 1
         /\ Len(ps.GRID[1]) >= 1
         /\ \A i \in 1..Len(ps.GRID) : Len(ps.GRID[i]) = Len(ps.GRID[1])

Picked(p) == pc[p] \in {"date", "year", "exists", "write", "append", "done"}

\* C6: the parameters generated for the selected template satisfy that
\* template's preconditions; for dijkstra_on_grid, a non-empty rectangular grid.
C6_ParamsValid == Picked(1) => Precondition(loc[1].name, loc[1].params)

\* C7: every placeholder of the selected template's code has an entry in the
\* generated parameters, so rendering never fails and no written file holds a
\* placeholder marker; a failed rendering leaves the files and the index lines
\* as they were.
C7_PlaceholdersCovered ==
  /\ Picked(1) =>
       LET t == Template(loc[1].name)
           body == Render(t, loc[1].params)
       IN /\ PlaceholdersOf(t.code) \subseteq DOMAIN loc[1].params
          /\ body.ok
          /\ Unresolved(body.lines) = {}
  /\ \A q \in DOMAIN files : Unresolved(files[q].text) = {}
  /\ pc[1] = "failed" =>
       files = snap[1].files /\ index.lines = BaseLines(snap[1].index)

\* The template with two placeholders was rendered and written.
C7_Witness ==
  /\ pc[1] = "done"
  /\ loc[1].name = NameLevenshtein
  /\ PlaceholdersOf(Template(loc[1].name).code) = {"A", "B"}
  /\ loc[1].out_path \in DOMAIN files

(***************************************************************************)
(* SpecConc: two invocations started together on one date, their file      *)
(* system operations interleaved, round after round; the clock stands.     *)
(***************************************************************************)
InitEdge == InitAt(EdgeDates)

StartBoth ==
  /\ AllIdle
  /\ runs < 2 * MaxRounds
  /\ runs' = runs + 2
  /\ pc' = [p \in Procs |-> MainOrder[1]]
  /\ loc' = [p \in Procs |-> InitLoc]
  /\ snap' = [p \in Procs |-> [files |-> files, index |-> index, clock |-> clock]]
  /\ UNCHANGED <<clock, nticks, fsvars, hist, aborts, simplevars>>

NextConc ==
  \/ StartBoth
  \/ \E p \in Procs : Step(p)
  \/ \E p \in Procs : Finish(p)

SpecConc == InitEdge /\ [][NextConc]_vars

BothDone == pc[1] = "done" /\ pc[2] = "done"

\* The line the invocation in slot p appended.
LineOf(p) ==
  IndexLine(loc[p].now, loc[p].name, RelativeTo(loc[p].out_path, ROOT),
            Template(loc[p].name).desc)

\* The index ends with both invocations' lines, in either order.
EndsWithBoth ==
  LET base == BaseLines(snap[1].index)
  IN index.lines \in { base \o << LineOf(1), LineOf(2) >>,
                       base \o << LineOf(2), LineOf(1) >> }

\* C8 as stated: whatever the interleaving, once both invocations are done
\* the index ends with their two whole lines in some order.
C8_TwoLinesAlways == BothDone => index.exists /\ EndsWithBoth

\* C8 amended: once both invocations are done the index ends with their two
\* lines in some order, or, when the index did not exist at the start, with
\* the header followed by one of the two lines alone (the other invocation's
\* late header write truncated the line appended before it).
C8_TwoLinesUnlessHeaderRace ==
  BothDone =>
    /\ index.exists
    /\ \/ EndsWithBoth
       \/ /\ ~ snap[1].index.exists
          /\ index.lines \in { << IndexHeader, LineOf(1) >>, << IndexHeader, LineOf(2) >> }

\* Both invocations resolved the same output path, the later write replaced
\* the earlier file, and both lines were appended to the existing index.
C8_Witness ==
  /\ BothDone
  /\ loc[1].out_path = loc[2].out_path
  /\ Cardinality(DOMAIN files) = Cardinality(DOMAIN snap[1].files) + 1
  /\ snap[1].index.exists
  /\ EndsWithBoth

(***************************************************************************)
(* SpecAbort: sequential invocations, any of which may be killed before    *)
(* any statement; nothing is cleaned up.                                   *)
(***************************************************************************)
Abort(p) ==
  /\ pc[p] \in Running
  /\ aborts' = aborts \cup { [at |-> pc[p], path |-> loc[p].out_path] }
  /\ pc' = [pc EXCEPT ![p] = "idle"]
  /\ UNCHANGED <<clock, nticks, fsvars, loc, snap, runs, hist, simplevars>>

NextAbort ==
  \/ Start(1)
  \/ Step(1)
  \/ Finish(1)
  \/ Abort(1)
  \/ TickIdle

SpecAbort == InitEdge /\ [][NextAbort]_vars

\* The files the index lines name (each link is relative to ROOT).
Indexed == { ROOT \o index.lines[i].link : i \in 2..Len(index.lines) }

\* C9: with aborts at any statement and no cleanup, every index line names a
\* file that exists; an invocation (a re-invocation after an abort too) keeps
\* every file and index line it found and does not fail; and a file that no
\* index line names was written by an invocation killed between the write and
\* the append, or by the one that is about to append.
C9_IndexedFilesExist ==
  /\ Indexed \subseteq DOMAIN files
  /\ pc[1] # "failed"
  /\ pc[1] # "idle" =>
       /\ \A q \in DOMAIN snap[1].files : q \in DOMAIN files /\ files[q] = snap[1].files[q]
       /\ snap[1].index.exists =>
            index.exists /\ IsPrefix(snap[1].index.lines, index.lines)
  /\ \A q \in (DOMAIN files) \ Indexed :
       \/ \E a \in aborts : a.at = "append" /\ a.path = q
       \/ pc[1] = "append" /\ loc[1].out_path = q

\* After an invocation was killed between the write and the append, a
\* re-invocation completed beside the orphaned file.
C9_Witness ==
  /\ pc[1] = "done"
  /\ \E a \in aborts : a.at = "append" /\ a.path \in (DOMAIN files) \ Indexed
  /\ loc[1].out_path \in Indexed
  /\ loc[1].out_path = VersionPath(1, 2)

(***************************************************************************)
(* SpecClock: sequential invocations, the clock advancing at any point.    *)
(***************************************************************************)
TickAny ==
  /\ nticks < MaxTicks
  /\ nticks' = nticks + 1
  /\ clock' = Advance(clock)
  /\ UNCHANGED <<fsvars, pc, loc, snap, runs, hist, aborts, simplevars>>

NextClock ==
  \/ Start(1)
  \/ Step(1)
  \/ Finish(1)
  \/ TickAny

SpecClock == InitEdge /\ [][NextClock]_vars

\* C10: the clock reads of one invocation agree: a file named for date D lies
\* in the year directory of D and holds the template and parameters selected
\* by seed(D), and an index line's timestamp has the date of the file it names.
C10_OneDatePerInvocation ==
  /\ \A q \in DOMAIN files :
       LET fn == q[Len(q)]
           sel == Selection(ParseInt(fn.date[1] \o fn.date[2] \o fn.date[3]))
       IN /\ q[Len(q) - 1].year = fn.date[1]
          /\ fn.slug = slugify(sel.name)
          /\ files[q].text = Render(Template(sel.name), sel.params).lines
  /\ \A i \in 2..Len(index.lines) :
       LET line == index.lines[i]
       IN << line.now[1], line.now[2], line.now[3] >> = line.link[Len(line.link)].date

(***************************************************************************)
(* The simple snippet script, scripts/generate_daily_code.py: module-level *)
(* statements, run once per invocation, relative to the working directory. *)
(***************************************************************************)
Snippets ==
  << "print('Hello from your daily Python script!')",
     "print('Coding is fun - keep going!')",
     "for i in range(1, 6): print(f'Square of {i} is {i*i}')",
     "print(sum(range(1, 101)))" >>

SimplePath(today) == << [lit |-> "daily_code"], [date |-> today] >>

mainvars == <<fsvars, pc, loc, snap, runs, hist, aborts>>

SStart ==
  /\ spc = "idle"
  /\ sruns < MaxSimpleRuns
  /\ sruns' = sruns + 1
  /\ spc' = "makedirs"
  /\ sloc' = SimpleInitLoc
  /\ UNCHANGED <<clock, nticks, mainvars, sdir, sfiles, sreadme>>

\* os.makedirs("daily_code", exist_ok=True)
SMakedirs ==
  /\ spc = "makedirs"
  /\ sdir' = TRUE
  /\ spc' = "today"
  /\ UNCHANGED <<clock, nticks, mainvars, sloc, sfiles, sreadme, sruns>>

\* today = utcnow().strftime("%Y-%m-%d"); file_path = f"daily_code/{today}.py"
SToday ==
  /\ spc = "today"
  /\ sloc' = [sloc EXCEPT !.today = FmtDate(clock),
                          !.file_path = SimplePath(FmtDate(clock))]
  /\ spc' = "choice"
  /\ UNCHANGED <<clock, nticks, mainvars, sdir, sfiles, sreadme, sruns>>

\* code = random.choice(snippets): the generator is not seeded.
SChoice ==
  /\ spc = "choice"
  /\ \E i \in 1..Len(Snippets) : sloc' = [sloc EXCEPT !.code = i]
  /\ spc' = "write"
  /\ UNCHANGED <<clock, nticks, mainvars, sdir, sfiles, sreadme, sruns>>

\* with open(file_path, "w") as f: the header comment and the snippet.
SWrite ==
  /\ spc = "write"
  /\ sfiles' = Put(sfiles, sloc.file_path,
                   [comment |-> sloc.today, code |-> Snippets[sloc.code]])
  /\ spc' = "readme"
  /\ UNCHANGED <<clock, nticks, mainvars, sdir, sloc, sreadme, sruns>>

\* README.md: append the entry, or create the log with its header and the entry.
SReadme ==
  /\ spc = "readme"
  /\ LET entry == [today |-> sloc.today, added |-> sloc.file_path]
     IN sreadme' =
          IF sreadme.exists
          THEN [exists |-> TRUE, lines |-> Append(sreadme.lines, entry)]
          ELSE [exists |-> TRUE, lines |-> << [hdr |-> "# Daily Python Code Log"], entry >>]
  /\ spc' = "idle"
  /\ UNCHANGED <<clock, nticks, mainvars, sdir, sloc, sfiles, sruns>>

NextSimple ==
  \/ SStart
  \/ SMakedirs
  \/ SToday
  \/ SChoice
  \/ SWrite
  \/ SReadme
  \/ TickIdle

SpecSimple == InitEdge /\ [][NextSimple]_vars

\* C5: a file the simple script generated is never changed afterwards (a
\* second invocation on the same date writes elsewhere).
C5_SimpleNeverMutated ==
  [][\A q \in DOMAIN sfiles : q \in DOMAIN sfiles' /\ sfiles'[q] = sfiles[q]]_vars

====
